---- MODULE Spec2Model ----
(***************************************************************************)
(* Model of the Ad Copy Generator App pipeline: the two-tier cache         *)
(* (services/cache_service.py), the cache_result wrapper, the retrying     *)
(* generation client (services/openai_service.py), the Celery jobs         *)
(* (services/tasks.py) and the bulk processors (app.py).                   *)
(***************************************************************************)
EXTENDS Integers, Sequences, FiniteSets, TLC

(***************************************************************************)
(* Bounds of the model.                                                    *)
(***************************************************************************)
\* the clock advances MaxTicks times at most
MaxTicks == 4

(***************************************************************************)
(* Python values.  Every value is a record [t, d]: t is the Python type,   *)
(* d the content.                                                          *)
(***************************************************************************)
PyNone == [t |-> "None", d |-> <<>>]
PyStr == [t |-> "str", d |-> <<1>>]
PyDefault == [t |-> "str", d |-> <<0>>]
PyList == [t |-> "list", d |-> <<1, 2>>]
PyTuple == [t |-> "tuple", d |-> <<1, 2>>]
\* {'titles': [], 'descriptions': []}
PyEmptyLists == [t |-> "dict", d |-> <<>>]
\* a set: json.dumps raises TypeError on it
PySet == [t |-> "set", d |-> <<1, 2>>]
PyTrue == [t |-> "bool", d |-> <<1>>]
PyFalse == [t |-> "bool", d |-> <<0>>]
\* the text json.dumps could not produce
JsonTypeError == [t |-> "TypeError", d |-> <<>>]
\* no entry under a key
NoEntry == [val |-> PyNone, expires_at |-> -1, set_at |-> -1, ttl |-> -1]

Keys == {"k1", "k2"}
Values == {PyStr, PyTuple, PyNone, PySet}
Defaults == {PyNone, PyDefault}

\* ttl arguments the callers pass: cache_api_response, and cache_ad_copy / cache_seo_content
TtlApiResponse == 1800
TtlSeoContent == 7200
TtlChoices == {TtlApiResponse, TtlSeoContent}
\* TTLCache(maxsize=1000, ttl=3600)
MemoryTtl == 3600
\* one tick of the clock, in seconds
TickStep == MemoryTtl \div 4

\* json.dumps: a tuple is written as an array, like a list
JsonDumps(v) ==
    CASE v.t = "None" -> [t |-> "json_null", d |-> <<>>]
      [] v.t = "str" -> [t |-> "json_string", d |-> v.d]
      [] v.t = "bool" -> [t |-> "json_bool", d |-> v.d]
      [] v.t \in {"list", "tuple"} -> [t |-> "json_array", d |-> v.d]
      [] v.t = "dict" -> [t |-> "json_object", d |-> v.d]
      [] OTHER -> JsonTypeError

\* json.loads: an array is read back as a list
JsonLoads(s) ==
    CASE s.t = "json_null" -> PyNone
      [] s.t = "json_string" -> [t |-> "str", d |-> s.d]
      [] s.t = "json_bool" -> [t |-> "bool", d |-> s.d]
      [] s.t = "json_array" -> [t |-> "list", d |-> s.d]
      [] s.t = "json_object" -> [t |-> "dict", d |-> s.d]

VARIABLES
    redis_client,   \* self.redis_client: "client" or "None"
    redisUp,        \* whether the external store answers
    redis,          \* the external store: key -> entry (val is the JSON text)
    memory_cache,   \* self.memory_cache: key -> entry
    now,            \* the clock, in seconds
    last,           \* the last direct operation on the cache and what it returned
    call,           \* per caller: the cache_result wrapper call it is in, or was in last
    memo,           \* per key: what the last completed wrapper call returned
    seq,            \* what the last sequential wrapper call found and did
    lastWrite,      \* per key: the value of the last set that succeeded
    gen,            \* a call of OpenAIService.generate_ad_copy / generate_seo_content
    input,          \* what the client hands in: a job to submit, or a bulk run of app.py
    job,            \* per task id: the task's record in the result backend and its position
    run,            \* a bulk run of app.py (process_bulk_seo_csv, process_bulk_seo_urls)
    keyq,           \* two requests and the cache keys computed for them
    req,            \* the request a web handler is serving, or served last
    pool            \* the worker pool and the clock of the bulk task

cacheVars == <<redis_client, redisUp, redis, memory_cache, now>>
wrapVars == <<call, memo, seq, lastWrite>>
\* the variables outside the cache
jobVars == <<input, job, run, pool>>
pipelineVars == <<gen, keyq, req, jobVars>>
vars == <<redis_client, redisUp, redis, memory_cache, now, last, call, memo, seq, lastWrite,
          gen, input, job, run, keyq, req, pool>>

NoOp ==
    [op |-> "none", key |-> "k1", arg |-> PyNone, ret |-> PyNone, raised |-> FALSE,
     down |-> FALSE, afterSet |-> FALSE, setVal |-> PyNone, setOk |-> FALSE,
     setDown |-> FALSE, served |-> FALSE, deadline |-> -1,
     consulted |-> <<>>, held |-> {}, removed |-> "none", wasHeld |-> FALSE]

\* an entry is visible until its expiry time: TTLCache.__contains__, the store's setex
Live(store, k) == store[k].expires_at > now

(***************************************************************************)
(* CacheService.__init__                                                   *)
(***************************************************************************)
CacheInit ==
    /\ redisUp \in BOOLEAN
    \* redis.from_url and ping(): the client is kept only when the ping succeeds
    /\ redis_client = IF redisUp THEN "client" ELSE "None"
    /\ redis = [k \in Keys |-> NoEntry]
    /\ memory_cache = [k \in Keys |-> NoEntry]
    /\ now = 0

(***************************************************************************)
(* CacheService.get: what it returns.  No exception leaves get: each is    *)
(* caught and the default returned.                                        *)
(***************************************************************************)
GetMemory(k, default) ==
    IF Live(memory_cache, k)
    THEN [ret |-> memory_cache[k].val, served |-> TRUE,
          deadline |-> memory_cache[k].set_at + memory_cache[k].ttl]
    ELSE [ret |-> default, served |-> FALSE, deadline |-> -1]

GetResult(k, default) ==
    IF redis_client /= "None"
    THEN IF ~redisUp
         THEN \* redis_client.get raises, caught at line 55
              [ret |-> default, served |-> FALSE, deadline |-> -1]
         ELSE IF Live(redis, k)
              THEN [ret |-> JsonLoads(redis[k].val), served |-> TRUE,
                    deadline |-> redis[k].set_at + redis[k].ttl]
              ELSE GetMemory(k, default)
    ELSE GetMemory(k, default)

\* the tiers get reads, in the order it reads them: the external store when a
\* client was kept, the in-process store after it when the store has no value
\* (an exception of the client ends the lookup)
Consulted(k) ==
    IF redis_client /= "None"
    THEN IF redisUp /\ ~Live(redis, k) THEN <<"redis", "memory_cache">> ELSE <<"redis">>
    ELSE <<"memory_cache">>

\* the keys a tier holds
Held == {k \in Keys : Live(redis, k) \/ Live(memory_cache, k)}

(***************************************************************************)
(* CacheService.set: whether it returns True, and the stores after it.     *)
(***************************************************************************)
SetOk(k, v, ttl) ==
    IF redis_client /= "None"
    THEN JsonDumps(v) /= JsonTypeError /\ redisUp
    ELSE TRUE

\* a set that keeps the entry already stored (SET NX) instead of replacing it
RedisAfterSetIfAbsent(k, v, ttl) ==
    IF redis_client /= "None" /\ SetOk(k, v, ttl) /\ ~Live(redis, k)
    THEN [redis EXCEPT ![k] = [val |-> JsonDumps(v), expires_at |-> now + ttl,
                               set_at |-> now, ttl |-> ttl]]
    ELSE redis

RedisAfterSet(k, v, ttl) ==
    IF redis_client /= "None" /\ SetOk(k, v, ttl)
    THEN [redis EXCEPT ![k] = [val |-> JsonDumps(v), expires_at |-> now + ttl,
                               set_at |-> now, ttl |-> ttl]]
    ELSE redis

MemoryAfterSet(k, v, ttl) ==
    IF redis_client /= "None"
    THEN memory_cache
    ELSE [memory_cache EXCEPT ![k] = [val |-> v, expires_at |-> now + MemoryTtl,
                                      set_at |-> now, ttl |-> ttl]]

SetStores(k, v, ttl) ==
    /\ redis' = RedisAfterSet(k, v, ttl)
    /\ memory_cache' = MemoryAfterSet(k, v, ttl)
    /\ UNCHANGED <<redis_client, redisUp, now, pipelineVars>>

(***************************************************************************)
(* CacheService.delete and CacheService.clear                              *)
(***************************************************************************)
DeleteOk == redis_client = "None" \/ redisUp

\* a delete that forgets the external store
DeleteStoresMemoryOnly(k) ==
    /\ redis' = redis
    /\ memory_cache' = IF DeleteOk THEN [memory_cache EXCEPT ![k] = NoEntry]
                       ELSE memory_cache
    /\ UNCHANGED <<redis_client, redisUp, now, pipelineVars>>

DeleteStores(k) ==
    \* redis_client.delete raises when the store is down: the memory entry stays
    /\ redis' = IF redis_client /= "None" /\ redisUp
                THEN [redis EXCEPT ![k] = NoEntry] ELSE redis
    /\ memory_cache' = IF DeleteOk THEN [memory_cache EXCEPT ![k] = NoEntry]
                       ELSE memory_cache
    /\ UNCHANGED <<redis_client, redisUp, now, pipelineVars>>

ClearStores ==
    /\ redis' = IF redis_client /= "None" /\ redisUp
                THEN [k \in Keys |-> NoEntry] ELSE redis
    /\ memory_cache' = IF DeleteOk THEN [k \in Keys |-> NoEntry] ELSE memory_cache
    /\ UNCHANGED <<redis_client, redisUp, now, pipelineVars>>

(***************************************************************************)
(* The environment: time passes, the external store goes down and comes    *)
(* back.  Expired entries are dropped as the clock moves.                  *)
(***************************************************************************)
Expire(store, t) == [k \in Keys |-> IF store[k].expires_at > t THEN store[k] ELSE NoEntry]

TimePasses ==
    /\ now < MaxTicks * TickStep
    /\ now' = now + TickStep
    /\ redis' = Expire(redis, now')
    /\ memory_cache' = Expire(memory_cache, now')
    /\ UNCHANGED <<redis_client, redisUp, pipelineVars>>

StoreGoesDown ==
    /\ redisUp
    /\ redisUp' = FALSE
    /\ UNCHANGED <<redis_client, redis, memory_cache, now, pipelineVars>>

StoreComesBack ==
    /\ ~redisUp
    /\ redisUp' = TRUE
    /\ UNCHANGED <<redis_client, redis, memory_cache, now, pipelineVars>>

(***************************************************************************)
(* The cache used directly: set, get, delete, clear, with the last         *)
(* operation recorded.                                                     *)
(***************************************************************************)
Set(k, v, ttl) ==
    /\ SetStores(k, v, ttl)
    /\ last' = [NoOp EXCEPT !.op = "set", !.key = k, !.arg = v,
                            !.ret = IF SetOk(k, v, ttl) THEN PyTrue ELSE PyFalse,
                            !.down = ~redisUp]
    /\ UNCHANGED wrapVars

Get(k, default) ==
    LET r == GetResult(k, default)
        afterSet == last.op = "set" /\ last.key = k
        removed == IF last.ret /= PyTrue THEN "none"
                   ELSE IF last.op = "delete" /\ last.key = k THEN "delete"
                   ELSE IF last.op = "clear" THEN "clear" ELSE "none"
    IN
    /\ last' = [NoOp EXCEPT !.op = "get", !.key = k, !.arg = default,
                            !.ret = r.ret, !.down = ~redisUp,
                            !.afterSet = afterSet,
                            !.setVal = IF afterSet THEN last.arg ELSE PyNone,
                            !.setOk = (afterSet /\ last.ret = PyTrue),
                            !.setDown = (afterSet /\ last.down),
                            !.served = r.served, !.deadline = r.deadline,
                            !.consulted = Consulted(k), !.removed = removed,
                            !.wasHeld = (removed /= "none" /\ k \in last.held)]
    /\ UNCHANGED <<cacheVars, wrapVars, pipelineVars>>

Delete(k) ==
    /\ DeleteStores(k)
    /\ last' = [NoOp EXCEPT !.op = "delete", !.key = k,
                            !.ret = IF DeleteOk THEN PyTrue ELSE PyFalse,
                            !.down = ~redisUp, !.held = Held]
    /\ UNCHANGED wrapVars

Clear ==
    /\ ClearStores
    /\ last' = [NoOp EXCEPT !.op = "clear",
                            !.ret = IF DeleteOk THEN PyTrue ELSE PyFalse,
                            !.down = ~redisUp, !.held = Held]
    /\ UNCHANGED wrapVars

Tick == TimePasses /\ last' = NoOp /\ UNCHANGED wrapVars

RedisDown == StoreGoesDown /\ last' = NoOp /\ UNCHANGED wrapVars

RedisUp == StoreComesBack /\ last' = NoOp /\ UNCHANGED wrapVars

CacheNext ==
    \/ \E k \in Keys, v \in Values, ttl \in TtlChoices : Set(k, v, ttl)
    \/ \E k \in Keys, d \in Defaults : Get(k, d)
    \/ \E k \in Keys : Delete(k)
    \/ Clear
    \/ Tick
    \/ RedisDown
    \/ RedisUp

(***************************************************************************)
(* CacheService.cache_result: the wrapper around a function.               *)
(***************************************************************************)
Callers == {"c1", "c2"}
\* the wrapped function raised
PyRaise == [t |-> "Exception", d |-> <<>>]
\* what the wrapped function may do: return a value (None included) or raise
FuncOutcomes == {PyStr, PyTuple, PyNone, PyRaise}
\* the ttl the wrapper of a key's function was built with:
\* @cache_url_content(ttl=3600) and @cache_seo_content(ttl=7200)
WrapTtl(k) == IF k = "k1" THEN MemoryTtl ELSE TtlSeoContent

NoMemo == [val |-> PyNone, until |-> -1]

IdleCall ==
    [pc |-> "idle", key |-> "k1", result |-> PyNone, missed |-> FALSE, invoked |-> 0,
     writes |-> 0, outcome |-> "none"]

NoSeq == [first |-> FALSE, retIsMemo |-> FALSE, storedWithTtl |-> FALSE]

WrapInit ==
    /\ call = [c \in Callers |-> IdleCall]
    /\ memo = [k \in Keys |-> NoMemo]
    /\ seq = NoSeq
    /\ lastWrite = [k \in Keys |-> PyRaise]

\* a per-key in-flight lock: a caller that misses while another caller is building
\* the same key waits for it
AfterMissLocked(c, k) ==
    IF \E d \in Callers \ {c} : call[d].pc \in {"func", "set"} /\ call[d].key = k
    THEN "wait"
    ELSE "func"

\* line 133: where a caller that missed goes, whatever the other callers are doing
AfterMiss(c, k) == "func"

\* lines 124-130: the key, the lookup, and the return on a hit
LookupStep(c, k) ==
    LET cached_result == GetResult(k, PyNone).ret IN
    /\ call[c].pc = "idle"
    /\ call' = [call EXCEPT ![c] =
                  IF cached_result /= PyNone
                  THEN [IdleCall EXCEPT !.key = k, !.outcome = "returned"]
                  ELSE [IdleCall EXCEPT !.pc = AfterMiss(c, k), !.key = k,
                                        !.missed = TRUE]]
    /\ UNCHANGED <<cacheVars, last, pipelineVars>>

\* line 133: result = func(*args, **kwargs); an exception leaves the wrapper
InvokeStep(c, r) ==
    /\ call[c].pc = "func"
    /\ call' = [call EXCEPT ![c] =
                  IF r = PyRaise
                  THEN [@ EXCEPT !.pc = "idle", !.invoked = @ + 1,
                                 !.outcome = "raised"]
                  ELSE [@ EXCEPT !.pc = "set", !.invoked = @ + 1, !.result = r]]
    /\ UNCHANGED <<cacheVars, last, pipelineVars>>

\* lines 134-137: self.set(cache_key, result, ttl) and return result
StoreStep(c) ==
    /\ call[c].pc = "set"
    /\ SetStores(call[c].key, call[c].result, WrapTtl(call[c].key))
    /\ call' = [call EXCEPT ![c] =
                  [@ EXCEPT !.pc = "idle", !.result = PyNone,
                            !.writes = @ + 1, !.outcome = "returned"]]
    /\ UNCHANGED last

(***************************************************************************)
(* Concurrent callers of one wrapped function, inside one ttl window.      *)
(***************************************************************************)
Lookup(c, k) == LookupStep(c, k) /\ UNCHANGED <<memo, seq, lastWrite>>

Invoke(c, r) == InvokeStep(c, r) /\ UNCHANGED <<memo, seq, lastWrite>>

Store(c) ==
    LET k == call[c].key IN
    /\ StoreStep(c)
    /\ lastWrite' = IF SetOk(k, call[c].result, WrapTtl(k))
                    THEN [lastWrite EXCEPT ![k] = call[c].result]
                    ELSE lastWrite
    /\ UNCHANGED <<memo, seq>>

WrapRedisDown == StoreGoesDown /\ UNCHANGED <<last, wrapVars>>

WrapRedisUp == StoreComesBack /\ UNCHANGED <<last, wrapVars>>

WrapNext ==
    \/ \E c \in Callers, k \in Keys : Lookup(c, k)
    \/ \E c \in Callers, r \in FuncOutcomes : Invoke(c, r)
    \/ \E c \in Callers : Store(c)
    \/ WrapRedisDown
    \/ WrapRedisUp

(***************************************************************************)
(* One caller, one call after the other, with deletes, clears and the      *)
(* clock in between.  memo[k] is what the last completed call for k        *)
(* returned, until a delete, a clear or the end of the wrapper's ttl.      *)
(***************************************************************************)
SeqLookup(k) ==
    LET cached_result == GetResult(k, PyNone).ret IN
    /\ LookupStep("c1", k)
    /\ seq' = [NoSeq EXCEPT !.first = (memo[k] = NoMemo),
                            !.retIsMemo = (memo[k] /= NoMemo /\ cached_result = memo[k].val)]
    /\ UNCHANGED <<memo, lastWrite>>

SeqInvoke(r) == InvokeStep("c1", r) /\ UNCHANGED <<memo, seq, lastWrite>>

SeqStore ==
    LET k == call["c1"].key
        r == call["c1"].result
    IN
    /\ StoreStep("c1")
    /\ memo' = [memo EXCEPT ![k] = [val |-> r, until |-> now + WrapTtl(k)]]
    /\ seq' = [seq EXCEPT !.storedWithTtl =
                  IF redis_client /= "None"
                  THEN redis'[k].expires_at = now + WrapTtl(k) /\ redis'[k].val = JsonDumps(r)
                  ELSE memory_cache'[k].expires_at = now + WrapTtl(k)
                       /\ memory_cache'[k].val = r]
    /\ UNCHANGED lastWrite

SeqDelete(k) ==
    /\ DeleteStores(k)
    /\ memo' = [memo EXCEPT ![k] = NoMemo]
    /\ UNCHANGED <<last, call, seq, lastWrite>>

SeqClear ==
    /\ ClearStores
    /\ memo' = [k \in Keys |-> NoMemo]
    /\ UNCHANGED <<last, call, seq, lastWrite>>

SeqTick ==
    /\ TimePasses
    /\ memo' = [k \in Keys |-> IF memo[k].until > now' THEN memo[k] ELSE NoMemo]
    /\ UNCHANGED <<last, call, seq, lastWrite>>

WrapSeqNext ==
    \/ \E k \in Keys : SeqLookup(k)
    \/ \E r \in FuncOutcomes : SeqInvoke(r)
    \/ SeqStore
    \/ \E k \in Keys : SeqDelete(k)
    \/ SeqClear
    \/ SeqTick
    \/ WrapRedisDown
    \/ WrapRedisUp

(***************************************************************************)
(* OpenAIService.generate_ad_copy / generate_seo_content under             *)
(* @retry(stop=stop_after_attempt(Config.MAX_RETRIES), wait=...).          *)
(***************************************************************************)
\* Config.MAX_RETRIES
MAX_RETRIES == 3

\* what openai.ChatCompletion.create does on one attempt: it raises a transient
\* error (timeout, rate limit), or returns text holding the whole JSON object, an
\* object with titles only, an object json.loads rejects, or no object at all
Responses == {"transient_error", "json_full", "json_titles_only", "bad_json", "no_json"}
GenFunctions == {"generate_ad_copy", "generate_seo_content"}
ContentTypes == {"titles", "descriptions", "both"}

\* _parse_ad_copy_response: the parsed object, or None
ParseAdCopy(resp) ==
    IF resp \in {"json_full", "json_titles_only"} THEN "result" ELSE "None"

\* a parser that makes a result of any text
ParseSeoAnything(resp, content_type) == "result"

\* _parse_seo_response: the titles and descriptions asked for, or None
ParseSeo(resp, content_type) ==
    CASE resp = "json_full" -> "result"
      [] resp = "json_titles_only" ->
            IF content_type \in {"titles", "both"} THEN "result" ELSE "None"
      [] OTHER -> "None"

\* the body of generate_ad_copy / generate_seo_content on one attempt: what it
\* returns, whether an exception leaves it, and the api-call record it logs
Body(fn, content_type, resp) ==
    IF resp = "transient_error"
    THEN \* except Exception: log_api_call(..., False, ...); return None
         [ret |-> "None", raised |-> FALSE, logged |-> "failure"]
    ELSE [ret |-> IF fn = "generate_ad_copy" THEN ParseAdCopy(resp)
                  ELSE ParseSeo(resp, content_type),
          raised |-> FALSE, logged |-> "success"]

\* tenacity: return what the function returned; after an exception try again,
\* until stop_after_attempt(MAX_RETRIES) ends the call with RetryError
AfterAttempt(raised, attempt_number) ==
    IF ~raised THEN "return"
    ELSE IF attempt_number >= MAX_RETRIES THEN "retry_error" ELSE "retry"

\* wait_exponential(multiplier=1, min=2, max=10): the seconds tenacity sleeps
\* after a failed attempt before the next one
WaitMultiplier == 1
WaitMin == 2
WaitMax == 10
Smaller(a, b) == IF a <= b THEN a ELSE b
Larger(a, b) == IF a >= b THEN a ELSE b
wait_exponential(attempt_number) ==
    Larger(WaitMin, Smaller(WaitMultiplier * 2 ^ (attempt_number - 1), WaitMax))

NoGen ==
    [pc |-> "idle", fn |-> "generate_ad_copy", content_type |-> "both",
     script |-> [a \in 1..MAX_RETRIES |-> "json_full"],
     attempt_number |-> 0, requests |-> 0, ret |-> "None", error |-> "none",
     log |-> <<>>, waits |-> <<>>]

\* a call, with what the external capability will answer on each attempt
GenInit ==
    \E fn \in GenFunctions, ct \in ContentTypes, sc \in [1..MAX_RETRIES -> Responses] :
        /\ fn = "generate_ad_copy" => ct = "both"
        /\ gen = [NoGen EXCEPT !.pc = "call", !.fn = fn, !.content_type = ct,
                               !.script = sc]

\* the caller enters the retrying wrapper: attempt 1
GenCall ==
    /\ gen.pc = "call"
    /\ gen' = [gen EXCEPT !.pc = "attempt", !.attempt_number = 1]
    /\ UNCHANGED <<cacheVars, last, wrapVars, keyq, req, jobVars>>

\* one attempt: the request, the parse, the api-call record, and tenacity's verdict
GenAttempt ==
    LET b == Body(gen.fn, gen.content_type, gen.script[gen.attempt_number])
        verdict == AfterAttempt(b.raised, gen.attempt_number)
    IN
    /\ gen.pc = "attempt"
    /\ gen' = [gen EXCEPT
                 !.requests = @ + 1,
                 !.log = Append(@, b.logged),
                 !.pc = IF verdict = "retry" THEN "attempt" ELSE "done",
                 !.attempt_number = IF verdict = "retry" THEN @ + 1 ELSE @,
                 !.waits = IF verdict = "retry"
                           THEN Append(@, wait_exponential(gen.attempt_number)) ELSE @,
                 !.ret = IF verdict = "return" THEN b.ret ELSE "None",
                 !.error = IF verdict = "retry_error" THEN "RetryError" ELSE "none"]
    /\ UNCHANGED <<cacheVars, last, wrapVars, keyq, req, jobVars>>

RetryNext ==
    \/ GenCall
    \/ GenAttempt

(***************************************************************************)
(* Bulk input: the CSV text and what pandas.read_csv makes of it           *)
(***************************************************************************)
MaxRows == 2

\* a cell or an index label: a str (v = 0 is the empty string), a number, or NaN
Str(v) == [t |-> "str", v |-> v]
Num(v) == [t |-> "int", v |-> v]
NaN == [t |-> "nan", v |-> 0]
Urls == 1..MaxRows
KeywordsText == 9
LeadNumber == 7

\* bool(cell): only the empty string (and 0) is false; NaN is true
Truthy(f) == ~(f.t \in {"str", "int"} /\ f.v = 0)

\* the brand_name column of a CSV text with the header url,keywords,brand_name:
\* not in the header, in the header with the cells left empty, or with the cells
\* filled in (texts with the column have one data line)
BrandColumns == {"absent", "empty", "given"}
BrandText == 6
DefaultBrandText == 5

\* the data lines of a CSV text: "aligned" lines have as many fields as the header,
\* "trailing_delimiter" lines end with a delimiter the header lacks, "leading_number"
\* lines start with a number the header does not name.  Line k holds url k.
CsvShapes == {"aligned", "trailing_delimiter", "leading_number"}
CsvLines(shape, n) ==
    [k \in 1..n |-> [lead |-> IF shape = "leading_number" THEN LeadNumber ELSE 0,
                     url |-> k]]
\* two lines with the same url, keywords and brand
CsvLinesRepeated == <<[lead |-> 0, url |-> 1], [lead |-> 0, url |-> 1]>>
CsvTexts ==
    {[parsable |-> TRUE, has_keywords |-> TRUE, shape |-> "aligned",
      lines |-> CsvLinesRepeated, brand |-> "absent"]}
    \cup
    {[parsable |-> FALSE, has_keywords |-> TRUE, shape |-> "aligned", lines |-> <<>>,
      brand |-> "absent"]}
    \cup {[parsable |-> TRUE, has_keywords |-> x[1], shape |-> x[2],
           lines |-> CsvLines(x[2], x[3]), brand |-> x[4]] :
             x \in {y \in BOOLEAN \X CsvShapes \X (0..MaxRows) \X BrandColumns :
                       /\ y[3] = 0 => y[2] = "aligned"
                       /\ y[4] /= "absent" => (y[1] /\ y[2] = "aligned" /\ y[3] = 1)}}

\* pd.read_csv: lines with one field more than the header make the first field
\* the index and shift the others one column to the left; otherwise RangeIndex
ReadCsvIndex(csv, k) ==
    CASE csv.shape = "aligned" -> Num(k - 1)
      [] csv.shape = "trailing_delimiter" -> Str(csv.lines[k].url)
      [] csv.shape = "leading_number" -> Num(csv.lines[k].lead)

\* row.get('url', ''), row.get('keywords', '')
RowGet(csv, k, column) ==
    IF column = "url"
    THEN IF csv.shape = "trailing_delimiter"
         THEN (IF csv.has_keywords THEN Str(KeywordsText) ELSE NaN)
         ELSE Str(csv.lines[k].url)
    ELSE IF ~csv.has_keywords THEN Str(0)
         ELSE IF csv.shape = "trailing_delimiter" THEN NaN ELSE Str(KeywordsText)

\* row.get('brand_name', default_brand_name): the default is returned only when
\* the row has no such column; an empty cell is read as NaN
RowGetBrand(csv, k, default_brand_name) ==
    CASE csv.brand = "absent" -> default_brand_name
      [] csv.brand = "empty" -> NaN
      [] csv.brand = "given" -> Str(BrandText)

\* len(df)
TotalRows(csv) == Len(csv.lines)

\* index + 1, index / total_rows: TypeError when the label is a str
IsNumber(f) == f.t = "int"

\* int((index / total_rows) * 80) + 10
Progress(index, total_rows) == (80 * index) \div total_rows + 10

\* what happened to a row: the error message recorded ("none" for a success row),
\* the content recorded, whether the page was fetched, whether generation was called
Outcome(error, content, fetch, generation) ==
    [error |-> error, content |-> content, fetch |-> fetch, generation |-> generation]

\* a row of a bulk result: an error row has the key 'error', a success row has not
ResultRow(k, url, outcome) ==
    [row |-> k, url |-> url, status |-> IF outcome.error = "none" THEN "ok" ELSE "error",
     error |-> outcome.error, content |-> outcome.content, fetch |-> outcome.fetch,
     generation |-> outcome.generation, brand_name |-> [t |-> "missing", v |-> 0]]

\* 'brand_name': brand_name in the dict of a success row; an error row has no such key
WithBrand(row, brand_name) ==
    IF row.status = "ok" THEN [row EXCEPT !.brand_name = brand_name] ELSE row

(***************************************************************************)
(* Celery tasks: generate_ad_copy_async, generate_seo_content_async,       *)
(* process_bulk_csv_async.  Task 0 is the one the client submits; task k   *)
(* is the generate_seo_content_async that the bulk task sends for row k.   *)
(***************************************************************************)
GenKinds == {"ad_copy", "seo_content"}
JobKinds == GenKinds \cup {"bulk_csv"}
JobIds == 0..MaxRows
Running == {"STARTED", "PROGRESS"}
Terminal == {"SUCCESS", "FAILURE"}

NoJob ==
    [kind |-> "seo_content", state |-> "NONE", pc |-> "none", reported |-> <<>>,
     result |-> "none", ret |-> "none", i |-> 0, results |-> <<>>]

\* task.delay(...): the message is sent; the backend has no record yet (PENDING)
Delay(kind) == [NoJob EXCEPT !.kind = kind, !.state = "PENDING", !.pc = "queued"]

\* what a redelivered message would do: run a task whatever its state
DeliverableAgain(r) == r.state /= "NONE"

\* a worker takes a message once: acks are early (task_acks_late is not set)
Deliverable(r) == r.state = "PENDING"

\* self.update_state(state='PROGRESS', meta={'current': current, ...})
UpdateState(r, current) ==
    [r EXCEPT !.state = "PROGRESS", !.reported = Append(@, current)]

\* the task function returns its dict: Celery stores it with state SUCCESS
Return(r, success) ==
    [r EXCEPT !.state = "SUCCESS", !.pc = "done",
              !.ret = IF success THEN "success" ELSE "failure"]

\* the status a client reads for a task
JobStatus(r) ==
    CASE r.state = "PENDING" -> "pending"
      [] r.state \in Running -> "running"
      [] r.state = "SUCCESS" /\ r.ret = "success" -> "succeeded"
      [] r.state \in Terminal -> "failed"
      [] OTHER -> "none"

\* the client submits a job
Submit ==
    /\ input.kind \in JobKinds
    /\ job[0].state = "NONE"
    /\ job' = [job EXCEPT ![0] = Delay(input.kind)]
    /\ UNCHANGED <<cacheVars, last, wrapVars, gen, keyq, req, input, run, pool>>

\* a worker starts the task: task_track_started=True stores STARTED
WorkerStart(j) ==
    /\ Deliverable(job[j])
    /\ job' = [job EXCEPT ![j] = [@ EXCEPT !.state = "STARTED", !.pc = "report0",
                                           !.reported = <<>>, !.result = "none",
                                           !.ret = "none", !.i = 0, !.results = <<>>]]
    /\ UNCHANGED <<cacheVars, last, wrapVars, gen, keyq, req, input, run, pool>>

\* task_time_limit: the worker process running the task is killed, its locals
\* are lost and the backend records the failure
Killed(r) ==
    [r EXCEPT !.state = "FAILURE", !.pc = "done", !.result = "none", !.i = 0,
              !.results = <<>>]

TimeLimit(j) ==
    /\ job[j].state \in Running
    /\ job' = [job EXCEPT ![j] = Killed(job[j])]
    /\ UNCHANGED <<cacheVars, last, wrapVars, gen, keyq, req, input, run, pool>>

\* generate_ad_copy_async / generate_seo_content_async, from one update_state
\* (or the return) to the next; raises: the code in between raised an exception
GenTaskStep(r, raises, generated) ==
    CASE r.pc = "report0" -> [UpdateState(r, 0) EXCEPT !.pc = "report25"]
      [] r.pc = "report25" ->          \* sanitize_input
            IF raises THEN Return(r, FALSE)
            ELSE [UpdateState(r, 25) EXCEPT !.pc = "report50"]
      [] r.pc = "report50" ->          \* OpenAIService()
            IF raises THEN Return(r, FALSE)
            ELSE [UpdateState(r, 50) EXCEPT !.pc = "report90"]
      [] r.pc = "report90" ->          \* generate_ad_copy / generate_seo_content
            [UpdateState(r, 90) EXCEPT !.pc = "return", !.result = generated]
      [] r.pc = "return" -> Return(r, r.result = "result")

GenTask(j) ==
    /\ job[j].kind \in GenKinds
    /\ job[j].state \in Running
    /\ \E next \in {GenTaskStep(job[j], raises, generated) :
                        raises \in BOOLEAN, generated \in {"result", "None"}} :
          job' = [job EXCEPT ![j] = next]
    /\ UNCHANGED <<cacheVars, last, wrapVars, gen, keyq, req, input, run, pool>>

\* results.append(row); then the next row, or the end of the loop
AppendRow(r, row, total_rows) ==
    [r EXCEPT !.results = Append(@, row),
              !.i = @ + 1,
              !.pc = IF r.i = total_rows THEN "report95" ELSE "row"]

\* an exception in a row without the row's try: the outer except ends the task
RowExceptAbort(r, row, total_rows) == Return(r, FALSE)

\* except Exception as e: results.append({'url': ..., 'error': str(e)})
RowExcept(r, row, total_rows) == AppendRow(r, row, total_rows)

\* the exceptions seo_result.get(timeout=300) can raise, given the sub-task's record
GetErrors(sub) ==
    {"RuntimeError"}
    \cup (IF sub.state \notin Terminal THEN {"TimeoutError"} ELSE {})
    \cup (IF sub.state = "FAILURE" THEN {"TimeLimitExceeded"} ELSE {})

\* process_bulk_csv_async up to read_csv and the entry of the loop
BulkTaskHead(r, csv) ==
    CASE r.pc = "report0" -> [UpdateState(r, 0) EXCEPT !.pc = "read_csv"]
      [] r.pc = "read_csv" ->
            IF ~csv.parsable THEN Return(r, FALSE)
            ELSE [r EXCEPT !.i = 1,
                           !.pc = IF TotalRows(csv) = 0 THEN "report95" ELSE "row"]
      [] r.pc = "report95" -> [UpdateState(r, 95) EXCEPT !.pc = "return"]
      [] r.pc = "return" -> Return(r, TRUE)

BulkHead ==
    /\ job[0].kind = "bulk_csv"
    /\ job[0].state \in Running
    /\ job[0].pc \in {"report0", "read_csv", "report95", "return"}
    /\ job' = [job EXCEPT ![0] = BulkTaskHead(job[0], input.csv)]
    /\ UNCHANGED <<cacheVars, last, wrapVars, gen, keyq, req, input, run, pool>>

\* one row of the loop up to the sub-task's delay: the progress update (outside
\* the row's try), then the cells and the branch on them
BulkRow ==
    LET r == job[0]
        csv == input.csv
        k == r.i
        index == ReadCsvIndex(csv, k)
        url == RowGet(csv, k, "url")
        keywords == RowGet(csv, k, "keywords")
        reported == UpdateState(r, Progress(index.v, TotalRows(csv)))
    IN
    /\ r.kind = "bulk_csv"
    /\ r.state \in Running
    /\ r.pc = "row"
    /\ IF ~IsNumber(index)
       THEN \* TypeError at index / total_rows: the outer except returns the error
            job' = [job EXCEPT ![0] = Return(r, FALSE)]
       ELSE IF Truthy(url) /\ Truthy(keywords)
       THEN \/ \* delay sends the sub-task
               job' = [job EXCEPT ![0] = [reported EXCEPT !.pc = "get"],
                                  ![k] = Delay("seo_content")]
            \/ \* delay raises (broker unreachable): the row's except
               job' = [job EXCEPT ![0] =
                          RowExcept(reported,
                                    ResultRow(k, url, Outcome("OperationalError", "none",
                                                              "none", "none")),
                                    TotalRows(csv))]
       ELSE job' = [job EXCEPT ![0] =
                       AppendRow(reported,
                                 ResultRow(k, url, Outcome("Missing URL or keywords", "none",
                                                           "none", "none")),
                                 TotalRows(csv))]
    /\ UNCHANGED <<cacheVars, last, wrapVars, gen, keyq, req, input, run, pool>>

\* seo_result.get(timeout=300): the sub-task's dict once it is stored, or an
\* exception (the timeout, the sub-task's failure, or Celery refusing to wait
\* for a result inside a task), which the row's except turns into an error row
BulkGet ==
    LET r == job[0]
        csv == input.csv
        k == r.i
        url == RowGet(csv, k, "url")
    IN
    /\ r.kind = "bulk_csv"
    /\ r.state \in Running
    /\ r.pc = "get"
    /\ \/ /\ job[k].state = "SUCCESS"
          /\ job' = [job EXCEPT ![0] =
                        AppendRow(r,
                                  WithBrand(
                                      ResultRow(k, url,
                                                IF job[k].ret = "success"
                                                THEN Outcome("none", "content", "none",
                                                             "called")
                                                ELSE Outcome("Failed to generate SEO content",
                                                             "none", "none", "called")),
                                      RowGetBrand(csv, k, Str(DefaultBrandText))),
                                  TotalRows(csv))]
       \/ \E e \in GetErrors(job[k]) :
             job' = [job EXCEPT ![0] =
                        RowExcept(r, ResultRow(k, url, Outcome(e, "none", "none", "sent")),
                                  TotalRows(csv))]
    /\ UNCHANGED <<cacheVars, last, wrapVars, gen, keyq, req, input, run, pool>>

(***************************************************************************)
(* The worker pool and the clock of a bulk task.  A task holds a worker    *)
(* slot from its start to its end; the messages are taken in the order     *)
(* they were sent.  Time passes in the waits of seo_result.get only, the   *)
(* other steps being short against them, so that a limit that falls on the *)
(* end of a wait comes before the wait's own timeout.                      *)
(***************************************************************************)
GetTimeout == 300               \* seo_result.get(timeout=300)
TaskTimeLimit == 30 * 60        \* task_time_limit
TaskSoftTimeLimit == 25 * 60    \* task_soft_time_limit
MaxPoolRows == 6
MaxSlots == 2
PoolJobIds == 0..MaxPoolRows

\* slots: the worker processes; refuses: whether result.get called inside a task
\* raises RuntimeError instead of waiting (it does unless the installed Celery
\* only warns); elapsed: seconds since the bulk task started; soft: whether
\* SoftTimeLimitExceeded was raised in it
NoPool == [slots |-> 0, refuses |-> FALSE, elapsed |-> 0, soft |-> FALSE]

FreeSlot == Cardinality({i \in DOMAIN job : job[i].state \in Running}) < pool.slots

\* the message at the head of the queue
Oldest(j) == \A i \in DOMAIN job : Deliverable(job[i]) => j <= i

\* a worker process without a task takes the oldest message
PoolStart(j) == FreeSlot /\ Oldest(j) /\ WorkerStart(j)

\* a row of the bulk task with the broker reachable: the sub-task is sent
PoolRow == BulkRow /\ job'[0].pc = "get"

\* seo_result.get returns or raises at once: the sub-task's dict is stored, or
\* this Celery refuses to wait inside a task
PoolGet ==
    /\ BulkGet
    /\ LET e == job'[0].results[Len(job'[0].results)].error IN
       IF pool.refuses THEN e = "RuntimeError"
       ELSE e \notin {"RuntimeError", "TimeoutError"}

\* seo_result.get(timeout=300) waits for a sub-task that is not done: the wait
\* ends with the hard limit killing the bulk task's process, with
\* SoftTimeLimitExceeded raised in the wait (an Exception: the row's except
\* records it), or with the TimeoutError of get
PoolWait ==
    LET r == job[0]
        csv == input.csv
        k == r.i
        url == RowGet(csv, k, "url")
        end == pool.elapsed + GetTimeout
    IN
    /\ r.kind = "bulk_csv"
    /\ r.state \in Running
    /\ r.pc = "get"
    /\ ~pool.refuses
    /\ job[k].state \notin Terminal
    /\ IF end >= TaskTimeLimit
       THEN /\ job' = [job EXCEPT ![0] = Killed(r)]
            /\ pool' = [pool EXCEPT !.elapsed = TaskTimeLimit]
       ELSE IF ~pool.soft /\ end >= TaskSoftTimeLimit
       THEN /\ job' = [job EXCEPT ![0] =
                          RowExcept(r, ResultRow(k, url, Outcome("SoftTimeLimitExceeded",
                                                                 "none", "none", "sent")),
                                    TotalRows(csv))]
            /\ pool' = [pool EXCEPT !.elapsed = TaskSoftTimeLimit, !.soft = TRUE]
       ELSE /\ job' = [job EXCEPT ![0] =
                          RowExcept(r, ResultRow(k, url, Outcome("TimeoutError", "none",
                                                                 "none", "sent")),
                                    TotalRows(csv))]
            /\ pool' = [pool EXCEPT !.elapsed = end]
    /\ UNCHANGED <<cacheVars, last, wrapVars, gen, keyq, req, input, run>>

PoolNext ==
    \/ Submit
    \/ \E j \in PoolJobIds : PoolStart(j)
    \/ \E j \in PoolJobIds : GenTask(j)
    \/ BulkHead
    \/ PoolRow
    \/ PoolGet
    \/ PoolWait

(***************************************************************************)
(* Bulk runs of app.py: process_bulk_seo_csv for an uploaded CSV,          *)
(* process_urls_list and process_bulk_seo_urls for a pasted list.          *)
(***************************************************************************)
\* the lines of the pasted text: a URL, or 0 for a blank line
UrlsTexts == UNION {[1..n -> Urls \cup {0}] : n \in 0..MaxRows}

Range(f) == {f[x] : x \in DOMAIN f}

\* list(set(...)): the elements once each, in an order the hash seed decides
ListOfSet(S) == {f \in [1..Cardinality(S) -> S] : Range(f) = S}

\* process_urls_list: the orders in which the cleaned list can come back
process_urls_list(urls_text) == ListOfSet(Range(urls_text) \ {0})

NoRun ==
    [pc |-> "idle", urls |-> <<>>, i |-> 0, results |-> <<>>, response |-> "none",
     content_type |-> "both", report |-> [headers |-> 0, rows |-> <<>>]]

\* results.append(row) in a bulk run; then the next row, or return results
RunAppend(r, row, total_rows) ==
    [r EXCEPT !.results = Append(@, row),
              !.i = @ + 1,
              !.pc = IF r.i = total_rows THEN "returned" ELSE @]

\* the pasted list is cleaned and the run over it starts
ProcessUrlsList ==
    /\ input.kind = "urls_list"
    /\ run.pc = "idle"
    /\ \E urls \in process_urls_list(input.urls_text) :
          run' = [NoRun EXCEPT !.urls = urls, !.i = 1,
                               !.pc = IF urls = <<>> THEN "no_urls" ELSE "urls"]
    /\ UNCHANGED <<cacheVars, last, wrapVars, gen, keyq, req, input, job, pool>>

\* generate_seo_content of app.py: it returns what was generated, or
\* {'titles': [], 'descriptions': []} when anything in it fails: keywords that are
\* not a str make sanitize_input raise, the call of the service passes seven
\* arguments to a method that takes six, the legacy client returns None
generate_seo_content(keywords_is_str, openai_service, legacy) ==
    IF ~keywords_is_str THEN "empty"
    ELSE IF openai_service THEN "empty"
    ELSE IF legacy = "content" THEN "content" ELSE "empty"

\* process_bulk_seo_urls, one url: requests.get raises and the except appends the
\* error, or the page is fetched, extract_keywords_from_content gives a list and
\* generate_seo_content is called with it
ProcessBulkSeoUrls ==
    /\ run.pc = "urls"
    /\ \E fetch \in {"ok", "failed"}, legacy \in {"content", "None"} :
          run' = RunAppend(run,
                           WithBrand(
                               ResultRow(run.i, Str(run.urls[run.i]),
                                         IF fetch = "failed"
                                         THEN Outcome("HTTPError", "none", "failed", "none")
                                         ELSE Outcome("none",
                                                      generate_seo_content(FALSE,
                                                          input.openai_service, legacy),
                                                      "ok", "called")),
                               Str(DefaultBrandText)),
                           Len(run.urls))
    /\ UNCHANGED <<cacheVars, last, wrapVars, gen, keyq, req, input, job, pool>>

\* process_bulk_seo_csv up to the loop: an exception of read_csv is raised again
ProcessBulkSeoCsvRead ==
    /\ input.kind = "csv_upload"
    /\ run.pc = "idle"
    /\ run' = [NoRun EXCEPT !.i = 1,
                            !.pc = IF ~input.csv.parsable THEN "raised"
                                   ELSE IF TotalRows(input.csv) = 0 THEN "returned"
                                   ELSE "csv"]
    /\ UNCHANGED <<cacheVars, last, wrapVars, gen, keyq, req, input, job, pool>>

\* cache_result around fetch_url_content and generate_seo_content of app.py, as a
\* bulk run sees it: the rows before this one that fetched the page of the same
\* url and called generation with it.  Their page and their result (the empty
\* lists as well) are in the cache and are returned for the same arguments; a
\* failed fetch (None) is stored too but is read back as a miss.
Stored(results, url) ==
    {i \in 1..Len(results) : results[i].url = url /\ results[i].fetch = "ok"}

\* process_bulk_seo_csv, one row.  With a logger, index + 1 is evaluated in the
\* row's try and again in its except: a str label raises out of the loop.
ProcessBulkSeoCsvRow ==
    LET csv == input.csv
        k == run.i
        index == ReadCsvIndex(csv, k)
        url == RowGet(csv, k, "url")
        keywords == RowGet(csv, k, "keywords")
    IN
    /\ run.pc = "csv"
    /\ IF input.logger /\ ~IsNumber(index)
       THEN run' = [run EXCEPT !.pc = "raised"]
       ELSE IF Truthy(url) /\ Truthy(keywords) /\ Stored(run.results, url) /= {}
       THEN \* the wrappers of fetch_url_content and generate_seo_content return
            \* what they stored for an earlier row with the same arguments
            run' = RunAppend(run,
                             WithBrand(
                                 ResultRow(k, url,
                                           Outcome("none",
                                                   run.results[CHOOSE i \in
                                                       Stored(run.results, url) : TRUE].content,
                                                   "ok", "cached")),
                                 RowGetBrand(csv, k, Str(DefaultBrandText))),
                             TotalRows(csv))
       ELSE IF Truthy(url) /\ Truthy(keywords)
       THEN \* fetch_url_content returns the page or None
            \E fetch \in {"ok", "failed"}, legacy \in {"content", "None"} :
               run' = RunAppend(run,
                                WithBrand(
                                    ResultRow(k, url,
                                              IF fetch = "failed"
                                              THEN Outcome("Failed to fetch content from URL",
                                                           "none", "failed", "none")
                                              ELSE Outcome("none",
                                                           generate_seo_content(
                                                               keywords.t = "str",
                                                               input.openai_service, legacy),
                                                           "ok", "called")),
                                    RowGetBrand(csv, k, Str(DefaultBrandText))),
                                TotalRows(csv))
       ELSE run' = RunAppend(run,
                             ResultRow(k, url, Outcome("Missing URL or keywords", "none",
                                                       "none", "none")),
                             TotalRows(csv))
    /\ UNCHANGED <<cacheVars, last, wrapVars, gen, keyq, req, input, job, pool>>

\* len(result['titles']), len(result['descriptions']): a row without the lists
\* (an error row) and the empty fallback count 0; generated content is taken to
\* hold one title and one description
ListLen(result) == IF result.status = "ok" /\ result.content = "content" THEN 1 ELSE 0

\* create_seo_csv: the header's and each data row's number of fields, with the
\* marker and the message of the error rows
create_seo_csv(results, content_type) ==
    IF results = <<>>
    THEN [headers |-> 4,
          rows |-> <<[fields |-> 4, marker |-> "none", message |-> "No results generated"]>>]
    ELSE LET lens == {ListLen(results[i]) : i \in 1..Len(results)}
             longest == CHOOSE n \in lens : \A o \in lens : o <= n
             max_titles == IF content_type \in {"both", "titles"} THEN longest ELSE 0
             max_descriptions ==
                 IF content_type \in {"both", "descriptions"} THEN longest ELSE 0
         IN [headers |-> 3 + max_titles + max_descriptions,
             rows |-> [i \in 1..Len(results) |->
                          IF results[i].status = "error"
                          THEN \* [url, 'ERROR', brand_name, error] and the padding
                               [fields |-> 4 + max_titles + max_descriptions,
                                marker |-> "ERROR", message |-> results[i].error]
                          ELSE \* [url, keywords, brand_name], titles, descriptions
                               [fields |-> 3 + max_titles + max_descriptions,
                                marker |-> "none", message |-> "none"]]]

\* the end of _handle_bulk_seo_generation: the report of the results is sent as
\* a download; an exception of the bulk run, or a list without a URL, is
\* answered with a flash message and a redirect
Respond ==
    /\ run.response = "none"
    /\ \/ /\ run.pc = "returned"
          /\ \E content_type \in ContentTypes :
                run' = [run EXCEPT !.response = "report", !.content_type = content_type,
                                   !.report = create_seo_csv(run.results, content_type)]
       \/ /\ run.pc \in {"raised", "no_urls"}
          /\ run' = [run EXCEPT !.response = "redirect"]
    /\ UNCHANGED <<cacheVars, last, wrapVars, gen, keyq, req, input, job, pool>>

\* what the client hands in
NoInput ==
    [kind |-> "none",
     csv |-> [parsable |-> FALSE, has_keywords |-> TRUE, shape |-> "aligned",
              brand |-> "absent",
              lines |-> <<>>],
     urls_text |-> <<>>, logger |-> TRUE, openai_service |-> TRUE]

Inputs ==
    {[NoInput EXCEPT !.kind = k] : k \in GenKinds}
    \cup {[NoInput EXCEPT !.kind = "bulk_csv", !.csv = c] : c \in CsvTexts}
    \cup {[NoInput EXCEPT !.kind = "csv_upload", !.csv = c, !.logger = l,
                           !.openai_service = o] :
             c \in CsvTexts, l \in BOOLEAN, o \in BOOLEAN}
    \cup {[NoInput EXCEPT !.kind = "urls_list", !.urls_text = t, !.openai_service = o] :
             t \in UrlsTexts, o \in BOOLEAN}

JobsIdle == job = [j \in JobIds |-> NoJob] /\ run = NoRun /\ pool = NoPool

JobsNext ==
    \/ Submit
    \/ \E j \in JobIds : WorkerStart(j)
    \/ \E j \in JobIds : TimeLimit(j)
    \/ \E j \in JobIds : GenTask(j)
    \/ BulkHead
    \/ BulkRow
    \/ BulkGet
    \/ ProcessUrlsList
    \/ ProcessBulkSeoUrls
    \/ ProcessBulkSeoCsvRead
    \/ ProcessBulkSeoCsvRow
    \/ Respond

(***************************************************************************)
(* Cache keys: CacheService._generate_key as cache_result calls it, and    *)
(* the keys the API endpoints build.                                       *)
(***************************************************************************)
Operations == {"ad_copy", "seo_content"}

\* a logical request; an ad copy request has no content type or variation count
Requests ==
    {r \in [op : Operations, url_content : {"c1", "c2"}, target_keywords : {"k1", "k2"},
            brand_name : {"b1", "b2"}, selling_points : {"", "s1"},
            content_type : {"both", "titles"}, num_variations : {"3", "5"}] :
        r.op = "ad_copy" => (r.content_type = "both" /\ r.num_variations = "3")}

\* the fields a request of the operation has
RequestFields(op) ==
    {"url_content", "target_keywords", "brand_name", "selling_points"}
    \cup (IF op = "seo_content" THEN {"content_type", "num_variations"} ELSE {})

\* the fields in which two requests differ
Differing(r1, r2) ==
    (IF r1.op /= r2.op THEN {"op"} ELSE {})
    \cup {f \in RequestFields(r1.op) \cup RequestFields(r2.op) : r1[f] /= r2[f]}

\* how the call is written: every argument by position, every argument by
\* keyword, or by position with the trailing arguments left to their defaults
CallStyles == {"positional", "keyword", "defaults_omitted"}

\* the parameters of generate_ad_copy / generate_seo_content of app.py, in order
Parameters(op) ==
    IF op = "ad_copy"
    THEN <<"url_content", "target_keywords", "brand_name", "selling_points">>
    ELSE <<"url_content", "target_keywords", "brand_name", "selling_points",
           "case_type", "content_type", "num_variations">>

\* sorted(kwargs.items()): the parameters in the order of their names
SortedParameters(op) ==
    IF op = "ad_copy"
    THEN <<"brand_name", "selling_points", "target_keywords", "url_content">>
    ELSE <<"brand_name", "case_type", "content_type", "num_variations",
           "selling_points", "target_keywords", "url_content">>

DefaultOf(parameter) ==
    CASE parameter = "selling_points" -> ""
      [] parameter = "case_type" -> "sentence"
      [] parameter = "content_type" -> "both"
      [] parameter = "num_variations" -> "3"
      [] OTHER -> "required"

ArgumentOf(r, parameter) == IF parameter = "case_type" THEN "sentence" ELSE r[parameter]

\* the number of leading parameters a call must pass: up to the last one whose
\* argument is not its default
Needed(r) ==
    LET ps == Parameters(r.op)
        given == {n \in 1..Len(ps) : ArgumentOf(r, ps[n]) /= DefaultOf(ps[n])}
    IN CHOOSE n \in given : \A o \in given : o <= n

\* func.__name__ in cache_result: the function under the cache decorator is the
\* wrapper of monitor_api_call, which does not copy the name
FuncName(op) == "wrapper"

\* *args and **kwargs of the wrapper for a call written in a style
CallArgs(r, style) ==
    LET ps == Parameters(r.op) IN
    CASE style = "positional" -> [n \in 1..Len(ps) |-> ArgumentOf(r, ps[n])]
      [] style = "defaults_omitted" -> [n \in 1..Needed(r) |-> ArgumentOf(r, ps[n])]
      [] style = "keyword" -> <<>>

CallKwargs(r, style) ==
    LET ps == SortedParameters(r.op) IN
    IF style = "keyword" THEN [n \in 1..Len(ps) |-> <<ps[n], ArgumentOf(r, ps[n])>>]
    ELSE <<>>

\* hashlib.md5(key_data.encode()).hexdigest(): equal for equal texts; texts that
\* differ are taken to give digests that differ
Md5(key_data) == [md5 |-> key_data]

\* _generate_key(prefix, *args, **kwargs)
\* key_data = f"{prefix}:{str(args)}:{str(sorted(kwargs.items()))}"
GenerateKey(prefix, args, kwargs) ==
    Md5([prefix |-> prefix, args |-> args, kwargs |-> kwargs])

\* the key of cache_result for a call: _generate_key(prefix, func.__name__, *args, **kwargs)
DecoratorKey(r, style) ==
    GenerateKey(r.op, <<FuncName(r.op)>> \o CallArgs(r, style), CallKwargs(r, style))

\* hash(str) of a process: str hashes are salted per interpreter process
Hash(text, process) == [hash |-> text, seed |-> process]

\* the endpoints' keys:
\* f"ad_copy:{hash(f'{url_content}:{target_keywords}:{brand_name}:{selling_points}')}"
\* f"seo_content:{hash(f'{url_content}:{target_keywords}:{brand_name}:{content_type}:{num_variations}')}"
ApiKey(r, process) ==
    IF r.op = "ad_copy"
    THEN <<"ad_copy", Hash(<<r.url_content, r.target_keywords, r.brand_name,
                             r.selling_points>>, process)>>
    ELSE <<"seo_content", Hash(<<r.url_content, r.target_keywords, r.brand_name,
                                 r.content_type, r.num_variations>>, process)>>

NoKey == <<"none", Hash(<<>>, 0)>>

NoKeys ==
    [r1 |-> CHOOSE r \in Requests : TRUE, r2 |-> CHOOSE r \in Requests : TRUE,
     style1 |-> "positional", style2 |-> "positional", process1 |-> 1, process2 |-> 1,
     computed |-> "none", decorator1 |-> Md5(<<>>), decorator2 |-> Md5(<<>>),
     api1 |-> NoKey, api2 |-> NoKey]

\* two requests that are the same or differ in one field, each written in some
\* style, each handled by some process
KeyQuestions ==
    {[NoKeys EXCEPT !.r1 = q[1], !.r2 = q[2], !.style1 = q[3], !.style2 = q[4],
                    !.process2 = q[5]] :
        q \in {x \in Requests \X Requests \X CallStyles \X CallStyles \X {1, 2} :
                  Cardinality(Differing(x[1], x[2])) <= 1}}

\* both calls go through the cache_result wrapper, which computes their keys
DecoratorKeys ==
    /\ keyq.computed = "none"
    /\ keyq' = [keyq EXCEPT !.computed = "decorator",
                            !.decorator1 = DecoratorKey(keyq.r1, keyq.style1),
                            !.decorator2 = DecoratorKey(keyq.r2, keyq.style2)]
    /\ UNCHANGED <<cacheVars, last, wrapVars, gen, req, jobVars>>

\* both requests are posted to the API endpoint, which builds their keys
ApiKeys ==
    /\ keyq.computed = "none"
    /\ keyq' = [keyq EXCEPT !.computed = "api",
                            !.api1 = ApiKey(keyq.r1, keyq.process1),
                            !.api2 = ApiKey(keyq.r2, keyq.process2)]
    /\ UNCHANGED <<cacheVars, last, wrapVars, gen, req, jobVars>>

KeysNext ==
    \/ DecoratorKeys
    \/ ApiKeys

(***************************************************************************)
(* The web handlers of single requests: AdCopyAPI.post, SEOContentAPI.post *)
(* (api/routes.py), _handle_single_ad_generation and                       *)
(* _handle_single_seo_generation (app.py).                                 *)
(***************************************************************************)
ApiHandlers == {"AdCopyAPI", "SEOContentAPI"}
FormHandlers == {"single_ad", "single_seo"}

\* what is wrong with a request: nothing, or the first check of the handler it
\* fails ("not_a_str": a field on which .strip() raises AttributeError)
Defects(handler) ==
    IF handler \in ApiHandlers
    THEN {"none", "not_a_str", "URL content is required", "Target keywords are required",
          "Brand name is required", "Brand name error", "Keywords error"}
         \cup (IF handler = "SEOContentAPI"
               THEN {"num_variations must be between 1 and 10"} ELSE {})
    ELSE {"none", "URL error", "Keywords error", "Brand name error"}

\* the answers of a handler: the API returns a body and a status code, the form
\* handlers flash the message and redirect to the index page
Answer(code, message) == [code |-> code, message |-> message]
Rejection(handler, defect) ==
    IF handler \in FormHandlers THEN Answer("redirect", defect)
    ELSE IF defect = "not_a_str" THEN Answer("500", "AttributeError")
    ELSE Answer("400", defect)

NoReq ==
    [handler |-> "AdCopyAPI", defect |-> "none", key |-> "k1", pc |-> "idle",
     calls |-> <<>>, page |-> PyNone, result |-> PyNone,
     response |-> Answer("none", "none")]

\* the checks at the top of the handler send the request on only when it passes
\* them all; a handler that checks nothing
AfterChecksUnchecked(handler, defect) ==
    [pc |-> IF handler \in ApiHandlers THEN "lookup" ELSE "fetch",
     response |-> Answer("none", "none")]

AfterChecks(handler, defect) ==
    IF defect /= "none" THEN [pc |-> "done", response |-> Rejection(handler, defect)]
    ELSE [pc |-> IF handler \in ApiHandlers THEN "lookup" ELSE "fetch",
          response |-> Answer("none", "none")]

\* the key of the page in the cache of fetch_url_content: not the request's key
PageKey(k) == CHOOSE o \in Keys : o /= k

\* cache_service.set inside a handler step
HandlerSet(k, v, ttl) ==
    /\ redis' = RedisAfterSet(k, v, ttl)
    /\ memory_cache' = MemoryAfterSet(k, v, ttl)

HandlerFrame == UNCHANGED <<redis_client, redisUp, now, last, wrapVars, gen, keyq, jobVars>>

\* a request arrives: its fields are read and checked.  The keys of one handler
\* are not the keys of another (the prefixes differ), so a behaviour follows the
\* requests to one handler.
Post(handler, defect, k) ==
    /\ req.pc = "idle" \/ (req.pc = "done" /\ req.handler = handler)
    /\ LET checked == AfterChecks(handler, defect) IN
       req' = [NoReq EXCEPT !.handler = handler, !.defect = defect, !.key = k,
                            !.pc = checked.pc, !.response = checked.response]
    /\ UNCHANGED <<redis, memory_cache>>
    /\ HandlerFrame

\* cached_result = cache_service.get(cache_key); if cached_result: return it
ApiLookup ==
    LET r == GetResult(req.key, PyNone) IN
    /\ req.pc = "lookup"
    /\ req' = [req EXCEPT !.calls = Append(@, "cache_get"),
                          !.pc = IF r.ret = PyNone THEN "generate" ELSE "done",
                          !.result = r.ret,
                          !.response = IF r.ret = PyNone THEN @
                                       ELSE Answer("200", "cached")]
    /\ UNCHANGED <<redis, memory_cache>>
    /\ HandlerFrame

\* OpenAIService().generate_...; no result is answered with 500, a result is
\* stored with ttl=7200 and returned
ApiGenerate ==
    /\ req.pc = "generate"
    /\ req.handler \in ApiHandlers
    /\ \/ /\ req' = [req EXCEPT !.calls = Append(@, "generate"), !.pc = "done",
                                !.response = Answer("500", "Failed to generate")]
          /\ UNCHANGED <<redis, memory_cache>>
       \/ /\ req' = [req EXCEPT !.calls = Append(Append(@, "generate"), "cache_set"),
                                !.pc = "done", !.result = PyStr,
                                !.response = Answer("200", "generated")]
          /\ HandlerSet(req.key, PyStr, TtlSeoContent)
    /\ HandlerFrame

\* the page is fetched: through the cache wrapper of fetch_url_content in the
\* ad handler (a miss fetches and stores what the fetch returned, None as
\* well), with requests.get in the SEO handler
FormFetch ==
    LET cached == GetResult(PageKey(req.key), PyNone).ret
        failed == Answer("redirect", "Failed to fetch content")
    IN
    /\ req.pc = "fetch"
    /\ IF req.handler = "single_ad" /\ cached /= PyNone
       THEN /\ req' = [req EXCEPT !.calls = Append(@, "cache_get"), !.page = cached,
                                  !.pc = "generate"]
            /\ UNCHANGED <<redis, memory_cache>>
       ELSE \E page \in {PyStr, PyNone} :
               /\ req' = [req EXCEPT
                             !.calls = IF req.handler = "single_ad"
                                       THEN @ \o <<"cache_get", "fetch", "cache_set">>
                                       ELSE Append(@, "fetch"),
                             !.page = page,
                             !.pc = IF page = PyNone THEN "done" ELSE "generate",
                             !.response = IF page = PyNone THEN failed ELSE @]
               /\ IF req.handler = "single_ad"
                  THEN HandlerSet(PageKey(req.key), page, MemoryTtl)
                  ELSE UNCHANGED <<redis, memory_cache>>
    /\ HandlerFrame

\* generate_ad_copy / generate_seo_content of app.py through their cache
\* wrapper: a hit is returned; a miss generates and stores what came back, None
\* (ad copy) and the empty lists (SEO) as well
FormGenerate ==
    LET cached == GetResult(req.key, PyNone).ret
        nothing == IF req.handler = "single_ad" THEN PyNone ELSE PyEmptyLists
        answer(result) == IF result = PyNone
                          THEN Answer("redirect", "Failed to generate ad copy.")
                          ELSE Answer("200", "rendered")
    IN
    /\ req.pc = "generate"
    /\ req.handler \in FormHandlers
    /\ IF cached /= PyNone
       THEN /\ req' = [req EXCEPT !.calls = Append(@, "cache_get"), !.pc = "done",
                                  !.result = cached, !.response = answer(cached)]
            /\ UNCHANGED <<redis, memory_cache>>
       ELSE \E result \in {PyStr, nothing} :
               /\ req' = [req EXCEPT !.calls = @ \o <<"cache_get", "generate", "cache_set">>,
                                     !.pc = "done", !.result = result,
                                     !.response = answer(result)]
               /\ HandlerSet(req.key, result, TtlSeoContent)
    /\ HandlerFrame

RequestsNext ==
    \/ \E handler \in ApiHandlers \cup FormHandlers :
          \E defect \in Defects(handler), k \in Keys : Post(handler, defect, k)
    \/ ApiLookup
    \/ ApiGenerate
    \/ FormFetch
    \/ FormGenerate
    \/ RedisDown
    \/ RedisUp

Init ==
    /\ CacheInit /\ last = NoOp /\ WrapInit /\ gen = NoGen /\ input = NoInput /\ JobsIdle
    /\ keyq = NoKeys /\ req = NoReq

RetryInit ==
    /\ CacheInit /\ last = NoOp /\ WrapInit /\ GenInit /\ input = NoInput /\ JobsIdle
    /\ keyq = NoKeys /\ req = NoReq

\* the broker and result backend of the tasks is the external store: it is up
JobsInit ==
    /\ CacheInit /\ redisUp /\ last = NoOp /\ WrapInit /\ gen = NoGen
    /\ input \in Inputs /\ JobsIdle /\ keyq = NoKeys /\ req = NoReq

\* a bulk job of up to MaxPoolRows rows with a url and keywords each; the bulk
\* task's slot is the only one, or there are more (then for the short jobs)
PoolInit ==
    /\ CacheInit /\ redisUp /\ last = NoOp /\ WrapInit /\ gen = NoGen
    /\ keyq = NoKeys /\ req = NoReq /\ run = NoRun
    /\ job = [j \in PoolJobIds |-> NoJob]
    /\ \E n \in 1..MaxPoolRows, slots \in 1..MaxSlots, refuses \in BOOLEAN :
          /\ slots > 1 => n <= MaxRows
          /\ input = [NoInput EXCEPT !.kind = "bulk_csv",
                                     !.csv = [parsable |-> TRUE, has_keywords |-> TRUE,
                                              shape |-> "aligned", brand |-> "absent",
                                              lines |-> CsvLines("aligned", n)]]
          /\ pool = [NoPool EXCEPT !.slots = slots, !.refuses = refuses]

KeysInit ==
    /\ CacheInit /\ redisUp /\ last = NoOp /\ WrapInit /\ gen = NoGen
    /\ input = NoInput /\ JobsIdle /\ keyq \in KeyQuestions /\ req = NoReq

SpecCache == Init /\ [][CacheNext]_vars

SpecWrap == Init /\ [][WrapNext]_vars

SpecWrapSeq == Init /\ [][WrapSeqNext]_vars

SpecRetry == RetryInit /\ [][RetryNext]_vars

SpecJobs == JobsInit /\ [][JobsNext]_vars

SpecPool == PoolInit /\ [][PoolNext]_vars

SpecKeys == KeysInit /\ [][KeysNext]_vars

SpecRequests == Init /\ [][RequestsNext]_vars

(***************************************************************************)
(* Claims about CacheService.get and CacheService.set                      *)
(***************************************************************************)
\* C1: a set(K, V, ttl) that returned True, followed at once by get(K), returns V,
\* with the external store connected and without it.
C1_RoundTrip ==
    (last.op = "get" /\ last.afterSet /\ last.setOk) => last.ret = last.setVal

\* C2: get never returns an entry once more than the caller's ttl has passed since
\* the set that wrote it, in either mode.
C2_TtlExpiry ==
    (last.op = "get" /\ last.served) => now <= last.deadline

\* C3: get and set never raise, and with the external store unreachable a get(K)
\* that follows set(K, V, ttl) returns V.
C3_Degradation ==
    /\ (last.op \in {"get", "set"} => ~last.raised)
    /\ (last.op = "get" /\ last.afterSet /\ last.setDown /\ last.down)
          => last.ret = last.setVal
(***************************************************************************)
(* Claims about the cache_result wrapper                                   *)
(***************************************************************************)
\* C4: in a sequential series of calls, the first call for given arguments invokes
\* the function once and stores its result under the key with the wrapper's ttl;
\* every later call with the same arguments (no delete, clear or end of the ttl in
\* between) returns the stored result without invoking the function.
C4_SequentialSemantics ==
    (call["c1"].pc = "idle" /\ call["c1"].outcome = "returned")
        => IF seq.first
           THEN call["c1"].invoked = 1 /\ seq.storedWithTtl
           ELSE call["c1"].invoked = 0 /\ seq.retIsMemo

\* C5: a caller whose lookup missed invokes the wrapped function, whatever the other
\* callers are doing: two callers that both miss before either writes both invoke it.
C5_EveryMissInvokes ==
    \A c \in Callers :
        call[c].missed => (call[c].pc = "func" \/ call[c].invoked = 1)

\* two callers have both invoked the function for the same key, and neither has
\* written yet
C5_BothInvoked ==
    /\ call["c1"].pc = "set" /\ call["c2"].pc = "set"
    /\ call["c1"].key = call["c2"].key
    /\ call["c1"].invoked = 1 /\ call["c2"].invoked = 1

\* the value stored under k is the one the last successful write wrote
LastWriteStored(k) ==
    lastWrite[k] /= PyRaise
        => IF redis_client /= "None"
           THEN redis[k].val = JsonDumps(lastWrite[k])
           ELSE memory_cache[k].val = lastWrite[k]

\* C6 as claimed: every call writes exactly once if it missed and never if it hit,
\* and the value stored is the last one written.
C6_OneWritePerMiss ==
    /\ \A c \in Callers :
          (call[c].pc = "idle" /\ call[c].outcome /= "none")
              => call[c].writes = IF call[c].missed THEN 1 ELSE 0
    /\ \A k \in Keys : LastWriteStored(k)

\* C6 as amended: a call writes at most once: exactly once if it missed and the
\* function returned, never if it hit or the function raised; the value stored is
\* the last one written.
C6_OneWritePerReturnedMiss ==
    /\ \A c \in Callers :
          /\ call[c].writes <= 1
          /\ call[c].pc \in {"func", "set"} => call[c].writes = 0
          /\ (call[c].pc = "idle" /\ call[c].outcome = "returned")
                => call[c].writes = IF call[c].missed THEN 1 ELSE 0
          /\ (call[c].pc = "idle" /\ call[c].outcome = "raised")
                => call[c].writes = 0
    /\ \A k \in Keys : LastWriteStored(k)

\* both callers missed on the same key and each wrote once; the second write
\* replaced the first
C6_TwoWrites ==
    /\ \A c \in Callers :
          /\ call[c].pc = "idle" /\ call[c].outcome = "returned"
          /\ call[c].missed /\ call[c].writes = 1 /\ call[c].key = "k1"
    /\ redis_client /= "None"
    /\ lastWrite["k1"] = PyStr
    /\ redis["k1"].val = JsonDumps(PyStr)
(***************************************************************************)
(* Claims about the retrying generation client                             *)
(***************************************************************************)
AlwaysTransient == \A a \in 1..MAX_RETRIES : gen.script[a] = "transient_error"

SecondSucceeds == gen.script[1] = "transient_error" /\ gen.script[2] = "json_full"

\* C7: a call whose request fails transiently on every attempt issues MAX_RETRIES
\* requests and ends with a terminal error; a call whose request fails on attempt 1
\* and succeeds on attempt 2 issues 2 requests and returns the result.
C7_RetryBound ==
    gen.pc = "done" =>
        /\ AlwaysTransient => (gen.requests = MAX_RETRIES /\ gen.error /= "none")
        /\ SecondSucceeds => (gen.requests = 2 /\ gen.ret = "result")

(***************************************************************************)
(* Claims about jobs and bulk runs                                         *)
(***************************************************************************)
Ended == {"succeeded", "failed"}

LifecycleStep(j) ==
    /\ (job[j].state = "NONE" /\ job'[j].state /= "NONE")
          => JobStatus(job'[j]) = "pending"
    /\ (JobStatus(job[j]) \notin Ended /\ JobStatus(job'[j]) \in Ended)
          => JobStatus(job[j]) = "running"
    /\ JobStatus(job[j]) \in Ended => job'[j] = job[j]

\* C8: a job is pending right after its submission, is running before it is
\* succeeded or failed, and once it is succeeded or failed its status, progress
\* and result never change.
C8_JobLifecycle == [][\A j \in JobIds : LifecycleStep(j)]_vars

\* the bulk job has succeeded, one of its sub-jobs has failed and another job
\* is still running
C8_EndedWhileOthersRun ==
    /\ job[0].kind = "bulk_csv"
    /\ JobStatus(job[0]) = "succeeded"
    /\ \E k \in 1..MaxRows : JobStatus(job[k]) = "failed"
    /\ \E k \in 1..MaxRows : JobStatus(job[k]) = "running"

\* the values a job has reported so far are what the claim says of them
ProgressAsClaimed(r, total_rows) ==
    LET rep == r.reported IN
    /\ \A a \in 1..Len(rep) : rep[a] \in 0..100
    /\ \A a, b \in 1..Len(rep) : a <= b => rep[a] <= rep[b]
    /\ Len(rep) > 0 => rep[1] = 0
    /\ (\E a \in 1..Len(rep) : rep[a] = 100) => r.state \in Terminal
    /\ r.kind = "bulk_csv" =>
          /\ \A a \in 2..Len(rep) :
                IF a <= total_rows + 1 THEN rep[a] = Progress(a - 2, total_rows)
                ELSE rep[a] = 95
          /\ JobStatus(r) = "succeeded" => rep[Len(rep)] = 95

\* C9: in every job the reported progress is non-decreasing, within 0..100, 0 at
\* the start and 100 only once terminal; the bulk job reports floor(i/n*80)+10
\* for the row at position i of n and 95 before it returns.
C9_ProgressMonotone ==
    \A j \in JobIds : job[j].state /= "NONE" =>
        ProgressAsClaimed(job[j], IF j = 0 /\ job[j].kind = "bulk_csv" /\ input.csv.parsable
                                  THEN TotalRows(input.csv) ELSE 0)

\* the rows of the pasted text: its lines that are not blank
InputUrlRows == Len(SelectSeq(input.urls_text, LAMBDA u : u /= 0))

\* C10: a bulk run over parsable input ends with one result row per input row,
\* whatever rows raised: for the bulk job, for an uploaded CSV, for a pasted list.
C10_RowCount ==
    /\ (job[0].kind = "bulk_csv" /\ job[0].state = "SUCCESS" /\ input.csv.parsable)
          => (job[0].ret = "success" /\ Len(job[0].results) = TotalRows(input.csv))
    /\ (input.kind = "csv_upload" /\ run.pc \in {"returned", "raised"} /\ input.csv.parsable)
          => (run.pc = "returned" /\ Len(run.results) = TotalRows(input.csv))
    /\ (input.kind = "urls_list" /\ run.pc \in {"returned", "no_urls"})
          => Len(run.results) = InputUrlRows

\* the rows of the pasted text, in the order they were pasted
InputUrlLines == SelectSeq(input.urls_text, LAMBDA u : u /= 0)

\* C11: the i-th result row of a bulk run is the outcome of the i-th input row,
\* for an uploaded CSV, for the bulk job and for a pasted URL list.
C11_InputOrder ==
    /\ (input.kind = "csv_upload" /\ run.pc = "returned")
          => \A i \in 1..Len(run.results) :
                run.results[i].row = i /\ run.results[i].url = RowGet(input.csv, i, "url")
    /\ (job[0].kind = "bulk_csv" /\ job[0].state = "SUCCESS")
          => \A i \in 1..Len(job[0].results) :
                job[0].results[i].row = i
                /\ job[0].results[i].url = RowGet(input.csv, i, "url")
    /\ (input.kind = "urls_list" /\ run.pc = "returned")
          => \A i \in 1..Len(run.results) :
                i <= Len(InputUrlLines) /\ run.results[i].url = Str(InputUrlLines[i])

\* the bulk job's record
Bulk == job[0]

\* C12: in process_bulk_csv_async a wait that times out is recorded as an error row
\* carrying the timeout for that row alone, the rows before it keep their outcome,
\* the loop goes on to the next row, and the job is never ended by it: it returns
\* failure only for a CSV it cannot read or index.
C12_TimeoutIsolated ==
    Bulk.kind = "bulk_csv" =>
        /\ \A i \in 1..Len(Bulk.results) :
              /\ Bulk.results[i].row = i
              /\ Bulk.results[i].error = "TimeoutError" => Bulk.results[i].status = "error"
        /\ Bulk.pc \in {"row", "get"} => Len(Bulk.results) = Bulk.i - 1
        /\ Bulk.pc \in {"report95", "return"} => Len(Bulk.results) = TotalRows(input.csv)
        /\ JobStatus(Bulk) = "succeeded" => Len(Bulk.results) = TotalRows(input.csv)
        /\ (Bulk.state = "SUCCESS" /\ Bulk.ret = "failure")
              => (~input.csv.parsable \/ ~IsNumber(ReadCsvIndex(input.csv, 1)))

\* the first row's wait timed out, the second row was generated, the job succeeded
C12_TimeoutThenSuccess ==
    /\ Bulk.kind = "bulk_csv"
    /\ JobStatus(Bulk) = "succeeded"
    /\ Len(Bulk.results) = 2
    /\ Bulk.results[1].error = "TimeoutError"
    /\ Bulk.results[2].status = "ok"

\* the result rows recorded so far, on whichever path the input takes
RowsSoFar == IF input.kind = "bulk_csv" THEN Bulk.results ELSE run.results

\* C13: for every bulk row generation is called only after the page was fetched;
\* a row whose fetch failed is an error row for which generation was not called.
C13_FetchBeforeGeneration ==
    \A i \in 1..Len(RowsSoFar) :
        /\ RowsSoFar[i].generation /= "none" => RowsSoFar[i].fetch = "ok"
        /\ RowsSoFar[i].fetch = "failed" =>
              (RowsSoFar[i].status = "error" /\ RowsSoFar[i].generation = "none")

\* C14: a bulk row is a success row only with content that was generated; a row
\* whose generation failed is an error row.
C14_SuccessHasContent ==
    \A i \in 1..Len(RowsSoFar) :
        /\ RowsSoFar[i].status = "ok" => RowsSoFar[i].content = "content"
        /\ (RowsSoFar[i].generation = "called" /\ RowsSoFar[i].content /= "content")
              => RowsSoFar[i].status = "error"

\* C15: two calls for the same logical request get the same cache key, however
\* each call is written (by position, by keyword, defaults left out) and
\* whichever process computes the key; for the keys of the decorator and for
\* the keys of the API endpoints.
C15_SameRequestSameKey ==
    (keyq.computed /= "none" /\ keyq.r1 = keyq.r2) =>
        /\ keyq.decorator1 = keyq.decorator2
        /\ keyq.api1 = keyq.api2

\* C16: two requests that differ in exactly one field (operation, content,
\* keywords, brand, selling points; for SEO also content type and variation
\* count) get different cache keys, from the decorator and from the API endpoints.
C16_OneFieldDiffers ==
    Cardinality(Differing(keyq.r1, keyq.r2)) = 1 =>
        /\ keyq.computed = "decorator" => keyq.decorator1 /= keyq.decorator2
        /\ keyq.computed = "api" => keyq.api1 /= keyq.api2

\* C17: after a set that returned True, the in-process store of the writing
\* process holds the value for the key (every set writes the in-process store,
\* and the external store as well when it is available).
C17_MemoryHoldsAfterSet ==
    (last.op = "set" /\ last.ret = PyTrue) =>
        /\ Live(memory_cache, last.key)
        /\ memory_cache[last.key].val = last.arg

\* C18: get reads the in-process store first and the external store only when
\* the key is not in the in-process store; it returns the default only when the
\* key is live in neither tier.
C18_MemoryFirst ==
    last.op = "get" =>
        /\ last.consulted[1] = "memory_cache"
        /\ (Len(last.consulted) = 2 => ~Live(memory_cache, last.key))
        /\ (~last.served => (~Live(memory_cache, last.key) /\ ~Live(redis, last.key)))

\* C19: a get of K right after a delete(K) that returned True returns the
\* default, and a get of any key right after a clear() that returned True
\* returns the default.
C19_GetAfterRemoval ==
    (last.op = "get" /\ last.removed /= "none") => (last.ret = last.arg /\ ~last.served)

\* a key that a tier held is deleted with True and then read; the same for clear
C19_DeletedHeldKey == last.op = "get" /\ last.removed = "delete" /\ last.wasHeld

C19_ClearedHeldKey == last.op = "get" /\ last.removed = "clear" /\ last.wasHeld

\* the bulk requests the web handler _handle_bulk_seo_generation serves: an
\* uploaded CSV or a pasted list; run is the work done inside that request
BulkRequest == input.kind \in {"csv_upload", "urls_list"}

\* C20: the web request handler of a bulk request does not itself execute the
\* per-row fetch and generation (the work is submitted as a job and the
\* request path only polls its status).
C20_HandlerRunsNoRow ==
    BulkRequest =>
        \A k \in 1..Len(run.results) :
            run.results[k].fetch = "none" /\ run.results[k].generation = "none"

\* the success rows of the CSV bulk results so far (the task's and the in-request run's)
CsvSuccessRows ==
    {RowsSoFar[i] : i \in {n \in 1..Len(RowsSoFar) :
                              /\ input.kind \in {"bulk_csv", "csv_upload"}
                              /\ RowsSoFar[n].status = "ok"}}

\* C21: a CSV row without a brand (no brand_name column, or an empty
\* brand_name cell) is reported with the job-level default brand name, and a
\* row that has a brand is reported with its own.
C21_DefaultBrand ==
    \A row \in CsvSuccessRows :
        row.brand_name = IF input.csv.brand = "given" THEN Str(BrandText)
                         ELSE Str(DefaultBrandText)

\* C22: every bulk request that passed input validation is answered with the
\* CSV report, in which each failed row is present, marked ERROR and carries
\* its failure message; no failure of the bulk run replaces the report.
C22_AlwaysReport ==
    (BulkRequest /\ run.response /= "none" /\ run.pc /= "no_urls") =>
        /\ run.response = "report"
        /\ Len(run.report.rows) >= Len(run.results)
        /\ \A i \in 1..Len(run.results) :
              run.results[i].status = "error" =>
                  /\ run.report.rows[i].marker = "ERROR"
                  /\ run.report.rows[i].message = run.results[i].error

\* C30: every data row of a report written by create_seo_csv has as many fields
\* as the header row, for success rows and error rows and every content type;
\* error rows carry the ERROR marker and the failure message.
C30_Rectangular ==
    run.response = "report" =>
        \A i \in 1..Len(run.report.rows) :
            /\ run.report.rows[i].fields = run.report.headers
            /\ (i <= Len(run.results) /\ run.results[i].status = "error") =>
                   /\ run.report.rows[i].marker = "ERROR"
                   /\ run.report.rows[i].message = run.results[i].error

Unparsable == {"bad_json", "no_json"}

\* C24: a generation call whose response holds no well-formed structured payload
\* fails: the caller gets no result (None, or an error raised), never a
\* successful result.
C24_ParseFailureFails ==
    (gen.pc = "done" /\ \A a \in 1..gen.attempt_number : gen.script[a] \in Unparsable) =>
        /\ gen.ret /= "result"
        /\ gen.ret = "None" \/ gen.error /= "none"

\* an SEO call has ended on a response json.loads rejects
C24_SeoCallOnBadJson ==
    /\ gen.pc = "done" /\ gen.fn = "generate_seo_content"
    /\ gen.attempt_number >= 1 /\ gen.script[gen.attempt_number] = "bad_json"

\* the attempts 1..k of the call failed transiently
FailedUpTo(k) == \A a \in 1..k : gen.script[a] = "transient_error"

\* C25: after a failed attempt k the call waits min(10, max(2, 2^(k-1))) seconds
\* before the next attempt; the waits of a call never decrease and are never
\* below 2 s or above 10 s.
C25_BackoffSchedule ==
    gen.pc = "done" =>
        /\ \A k \in 1..(MAX_RETRIES - 1) :
              FailedUpTo(k) =>
                  /\ Len(gen.waits) >= k
                  /\ gen.waits[k] = Smaller(10, Larger(2, 2 ^ (k - 1)))
        /\ \A k \in 1..Len(gen.waits) :
              /\ gen.waits[k] >= 2 /\ gen.waits[k] <= 10
              /\ k > 1 => gen.waits[k - 1] <= gen.waits[k]

\* C26: every attempt of a generation call emits exactly one api-call record,
\* and the record of the attempt that ends the call says success if and only
\* if the call returned a structured result.
C26_RecordMatchesOutcome ==
    gen.pc = "done" =>
        /\ Len(gen.log) = gen.requests
        /\ gen.log[Len(gen.log)] = "success" <=> gen.ret = "result"

\* C27: in a CSV bulk job (the task's and the in-request run's) two rows with
\* the same content, keywords, brand and options do not both invoke generation:
\* the second is served by the cache wrapper.
C27_GeneratedOnce ==
    input.kind \in {"bulk_csv", "csv_upload"} =>
        \A i, j \in 1..Len(RowsSoFar) :
            (i < j /\ RowsSoFar[i].url = RowsSoFar[j].url
               /\ RowsSoFar[i].status = "ok" /\ RowsSoFar[i].generation = "called")
                => ~(RowsSoFar[j].status = "ok" /\ RowsSoFar[j].generation = "called")

\* C28: a process_bulk_csv_async job of n rows ends with one outcome per row and
\* is not cut off by the task time limit, also when no worker slot is free for
\* its sub-tasks and every wait for one runs into its timeout.
C28_BulkJobCompletes ==
    (input.kind = "bulk_csv" /\ job[0].state \in Terminal) =>
        /\ JobStatus(job[0]) = "succeeded"
        /\ Len(job[0].results) = TotalRows(input.csv)

\* what a failed generation hands back: nothing, or the empty fallback
FailedOutcomes == {PyNone, PyEmptyLists}

\* the request was answered from the cache: the lookup was its last call
ServedFromCache ==
    req.pc = "done" /\ Len(req.calls) > 0 /\ req.calls[Len(req.calls)] = "cache_get"

\* C29: a failed outcome (an exception, a missing result, the empty fallback) is
\* never served from the cache: what a request gets from the cache is the result
\* of a generation that succeeded.
C29_NoNegativeCaching == ServedFromCache => req.result \notin FailedOutcomes


====
